---- MODULE Spec2Model ----
\* A model of InomialClient (src/InomialClient.js): one client instance, the
\* websocket transport it talks to, and the callers that submit exchanges.
\*
\* Every handler of the client runs to completion on the node.js event loop,
\* so each handler is one atomic action.  The websocket library is the
\* environment: it reports connect / connectFailed for every connection
\* attempt, and message / error / close for every established connection
\* (an error is followed by a close for the same connection).
EXTENDS Integers, Sequences, FiniteSets, TLC

\* ---------------------------------------------------------------- bounds
MaxExchanges == 2       \* request objects created by query() / subscribe()
MaxConnections == 2     \* connections the transport establishes
MaxSends == 4           \* calls of sendRequest (ids drawn from the counter)
MaxEvents == 2          \* callback invocations counted per subscription

\* ---------------------------------------------------------------- constants
FirstRequestId == 1000000   \* this.nextRequestId = 1000000
NoConnection == 0           \* this.connection = null
NoRequest == 0              \* responseQueue[requestId] is undefined
InheritedProperty == -1     \* responseQueue[requestId] found on Object.prototype

\* "R" + n : the request id written into extensions.requestId
RequestIdOf(n) == <<"R", n>>
\* extensions or extensions.requestId absent from the response
AbsentId == <<"absent">>
\* a key every plain object inherits (responseQueue is created as {})
InheritedKey == <<"constructor">>
\* request.lookup of a request that no identifier lookup created
NoLookup == <<>>
\* the value of a cache slot, or of a uuid in a response, that is null
NullUuid == "null"
\* the identifier caches and the identifiers looked up
Kinds == {"account", "subscription"}
Usns == {"usn"}

VARIABLES
    requestQueue,     \* this.requestQueue : sequence of request objects
    responseQueue,    \* this.responseQueue : request id -> request object
    nextRequestId,    \* this.nextRequestId
    connection,       \* this.connection : NoConnection or a connection
    reconnectPolicy,  \* this.reconnectPolicy
    requests,         \* the request objects created so far (object k = requests[k])
    connecting,       \* WebSocketClient.connect calls awaiting connect/connectFailed
    timers,           \* setTimeout(connect, 10000) timers not yet fired
    conns,            \* transport state of each established connection
    wire,             \* every connection.sendUTF call, in order
    resolved,         \* resolved[k] : number of calls of requests[k].resolve
    rejected,         \* rejected[k] : number of calls of requests[k].reject
    uuidCache,        \* this.accountUuidCache and this.subscriptionUuidCache
    args,             \* the arguments and environment of the factory call
    outcome,          \* what the factory call produced
    configured,       \* has the caller assigned reconnectPolicy
    reconnectMark,    \* value of nextRequestId at the last re-queueing doReconnect
    answered,         \* ids whose OneShot response has been dispatched
    lookedUp,         \* cache slots whose latest lookup response with data had a uuid
    last              \* the handler that ran last, and what it did

vars == <<requestQueue, responseQueue, nextRequestId, connection, reconnectPolicy,
          requests, connecting, timers, conns, wire, resolved, rejected,
          uuidCache, args, outcome, configured, reconnectMark, answered, lookedUp,
          last>>

Requests == 1..MaxExchanges
Connections == 1..MaxConnections
EmptyMap == [i \in {} |-> NoRequest]

\* The client object, as the handlers see it.
this ==
    [requestQueue |-> requestQueue, responseQueue |-> responseQueue,
     nextRequestId |-> nextRequestId, connection |-> connection,
     reconnectPolicy |-> reconnectPolicy, requests |-> requests,
     connecting |-> connecting, timers |-> timers, wire |-> wire,
     resolved |-> resolved, rejected |-> rejected, uuidCache |-> uuidCache,
     threw |-> FALSE, delivered |-> EmptyMap]

\* ---------------------------------------------------------------- handlers

\* connect(): a new WebSocketClient starts one connection attempt.
connect(s) ==
    [s EXCEPT !.connecting = @ + 1]

\* sendRequest with the counter read but not advanced ("R" + this.nextRequestId).
sendRequest_SameId(s, request) ==
    LET requestId == RequestIdOf(s.nextRequestId) IN
    [s EXCEPT !.responseQueue = (requestId :> request) @@ @,
              !.wire = Append(@, [requestId |-> requestId, request |-> request,
                                  conn |-> s.connection])]

\* sendRequest that leaves in the payload the id of the request's first
\* transmission.
sendRequest_FirstId(s, request) ==
    LET requestId == RequestIdOf(s.nextRequestId)
        earlier == {w \in 1..Len(s.wire) : s.wire[w].request = request}
        written == IF earlier = {} THEN requestId
                   ELSE s.wire[CHOOSE w \in earlier : \A v \in earlier : w <= v].requestId
    IN  [s EXCEPT !.nextRequestId = @ + 1,
                  !.responseQueue = (requestId :> request) @@ @,
                  !.wire = Append(@, [requestId |-> written, request |-> request,
                                      conn |-> s.connection])]

\* sendRequest(request): draw an id, file the request under it, transmit.
sendRequest(s, request) ==
    LET requestId == RequestIdOf(s.nextRequestId) IN
    [s EXCEPT !.nextRequestId = @ + 1,
              !.responseQueue = (requestId :> request) @@ @,
              !.wire = Append(@, [requestId |-> requestId, request |-> request,
                                  conn |-> s.connection])]

\* for (let i in sendQueue) this.sendRequest(sendQueue[i]);
RECURSIVE SendEach(_, _, _)
SendEach(s, sendQueue, i) ==
    IF i > Len(sendQueue) THEN s
    ELSE SendEach(sendRequest(s, sendQueue[i]), sendQueue, i + 1)

\* onConnect that sends the queue without resetting it.
onConnect_KeepQueue(s, c) ==
    SendEach([s EXCEPT !.connection = c], s.requestQueue, 1)

\* onConnect that sends the queue from its last entry to its first.
onConnect_LastFirst(s, c) ==
    LET sendQueue == [i \in 1..Len(s.requestQueue) |->
                         s.requestQueue[Len(s.requestQueue) + 1 - i]]
        s1 == [s EXCEPT !.connection = c, !.requestQueue = <<>>]
    IN  SendEach(s1, sendQueue, 1)

\* onConnect(connection)
onConnect(s, c) ==
    LET sendQueue == s.requestQueue
        s1 == [s EXCEPT !.connection = c, !.requestQueue = <<>>]
    IN  SendEach(s1, sendQueue, 1)

\* onConnectError(e): setTimeout(this.connect.bind(this), 10000)
onConnectError(s) ==
    [s EXCEPT !.timers = @ + 1]

\* The keys of responseQueue in the order for..in visits them.  The keys are
\* not array indices, so the order is insertion order, and keys are inserted
\* in the order of the counter.
RECURSIVE KeysInOrder(_)
KeysInOrder(ids) ==
    IF ids = {} THEN <<>>
    ELSE LET first == CHOOSE i \in ids : \A j \in ids : i[2] <= j[2]
         IN  <<first>> \o KeysInOrder(ids \ {first})

\* for (let requestId in this.responseQueue) this.requestQueue.push(...)
RECURSIVE PushEach(_, _, _)
PushEach(s, keys, i) ==
    IF i > Len(keys) THEN s
    ELSE PushEach([s EXCEPT !.requestQueue = Append(@, s.responseQueue[keys[i]])],
                  keys, i + 1)

\* doReconnect that forgets to push the pending requests onto the queue.
doReconnect_NoPush(s) ==
    IF ~s.reconnectPolicy THEN s
    ELSE connect([s EXCEPT !.connection = NoConnection,
                           !.responseQueue = EmptyMap])

\* doReconnect that re-queues the pending requests but keeps the table.
doReconnect_NoClear(s) ==
    IF ~s.reconnectPolicy THEN s
    ELSE LET s1 == [s EXCEPT !.connection = NoConnection]
         IN  connect(PushEach(s1, KeysInOrder(DOMAIN s1.responseQueue), 1))

\* doReconnect that also restarts the id counter.
doReconnect_ResetIds(s) ==
    IF ~s.reconnectPolicy THEN s
    ELSE LET s1 == [s EXCEPT !.connection = NoConnection]
             s2 == PushEach(s1, KeysInOrder(DOMAIN s1.responseQueue), 1)
         IN  connect([s2 EXCEPT !.responseQueue = EmptyMap,
                                !.nextRequestId = FirstRequestId])

\* doReconnect that re-queues but does not call connect().
doReconnect_NoConnect(s) ==
    IF ~s.reconnectPolicy THEN s
    ELSE LET s1 == [s EXCEPT !.connection = NoConnection]
             s2 == PushEach(s1, KeysInOrder(DOMAIN s1.responseQueue), 1)
         IN  [s2 EXCEPT !.responseQueue = EmptyMap]

\* doReconnect that does not look at the policy.
doReconnect_Always(s) ==
    LET s1 == [s EXCEPT !.connection = NoConnection]
        s2 == PushEach(s1, KeysInOrder(DOMAIN s1.responseQueue), 1)
        s3 == [s2 EXCEPT !.responseQueue = EmptyMap]
    IN  connect(s3)

\* doReconnect()
doReconnect(s) ==
    IF ~s.reconnectPolicy THEN s
    ELSE LET s1 == [s EXCEPT !.connection = NoConnection]
             s2 == PushEach(s1, KeysInOrder(DOMAIN s1.responseQueue), 1)
             s3 == [s2 EXCEPT !.responseQueue = EmptyMap]
         IN  connect(s3)

onError(s) == doReconnect(s)

onClose(s) == doReconnect(s)

\* this.responseQueue[requestId]
Lookup(queue, requestId) ==
    IF requestId \in DOMAIN queue THEN queue[requestId]
    ELSE IF requestId = InheritedKey THEN InheritedProperty
    ELSE NoRequest

\* delete this.responseQueue[requestId]
Delete(queue, requestId) ==
    [i \in DOMAIN queue \ {requestId} |-> queue[i]]

\* JSON.parse(message.utf8Data): the text is a sequence of members
\* <<key, value>>; the decoded object maps each key to the value of its last
\* member.
JSONparse(text) ==
    [key \in {text[i][1] : i \in 1..Len(text)} |->
        LET at == CHOOSE i \in 1..Len(text) :
                      /\ text[i][1] = key
                      /\ \A j \in 1..Len(text) : text[j][1] = key => j <= i
        IN  text[at][2]]

\* response.extensions != null ? response.extensions.requestId : null
RequestIdIn(response) ==
    IF "extensions" \in DOMAIN response THEN response["extensions"].requestId
    ELSE AbsentId

\* A .then() that returns the uuid without storing it.
lookupThen_NoStore(s, lookup, result) == s

\* The .then() of getAccountUuid / getSubscriptionUuid: read the uuid out of
\* result.data and store it in the cache.  Without result.data the read
\* throws inside the promise chain and the cache is left alone.
lookupThen(s, lookup, result) ==
    IF "data" \notin DOMAIN result THEN s
    ELSE [s EXCEPT !.uuidCache[lookup] = result["data"].uuid]

\* request.resolve(response): the promise's resolve, or the callback.
resolve(s, request, response) ==
    LET s1 == [s EXCEPT !.resolved[request] = @ + 1, !.delivered = response]
    IN  IF s.requests[request].lookup = NoLookup THEN s1
        ELSE lookupThen(s1, s.requests[request].lookup, response)

\* onMessage that removes the entry whatever the kind of the request.
onMessage_DeleteAlways(s, message) ==
    IF message.type # "utf8" THEN s
    ELSE LET response == JSONparse(message.utf8Data)
             requestId == RequestIdIn(response)
             request == Lookup(s.responseQueue, requestId)
         IN  IF request = NoRequest THEN s
             ELSE IF request = InheritedProperty THEN [s EXCEPT !.threw = TRUE]
             ELSE resolve([s EXCEPT !.responseQueue = Delete(@, requestId)],
                          request, response)

\* onMessage that never removes the entry.
onMessage_DeleteNever(s, message) ==
    IF message.type # "utf8" THEN s
    ELSE LET response == JSONparse(message.utf8Data)
             requestId == RequestIdIn(response)
             request == Lookup(s.responseQueue, requestId)
         IN  IF request = NoRequest THEN s
             ELSE IF request = InheritedProperty THEN [s EXCEPT !.threw = TRUE]
             ELSE resolve(s, request, response)

\* onMessage that answers the oldest pending request, whatever id came back.
onMessage_Oldest(s, message) ==
    IF message.type # "utf8" THEN s
    ELSE LET response == JSONparse(message.utf8Data)
             requestId == RequestIdIn(response)
             request == Lookup(s.responseQueue, requestId)
         IN  IF request = NoRequest THEN s
             ELSE IF request = InheritedProperty THEN [s EXCEPT !.threw = TRUE]
             ELSE LET oldest == KeysInOrder(DOMAIN s.responseQueue)[1]
                      target == s.responseQueue[oldest]
                      s1 == IF ~s.requests[target].isSubscription
                            THEN [s EXCEPT !.responseQueue = Delete(@, oldest)]
                            ELSE s
                  IN  resolve(s1, target, response)

\* onMessage that rejects the request when the response carries errors.
onMessage_RejectErrors(s, message) ==
    IF message.type # "utf8" THEN s
    ELSE LET response == JSONparse(message.utf8Data)
             requestId == RequestIdIn(response)
             request == Lookup(s.responseQueue, requestId)
         IN  IF request = NoRequest THEN s
             ELSE IF request = InheritedProperty THEN [s EXCEPT !.threw = TRUE]
             ELSE LET s1 == IF ~s.requests[request].isSubscription
                            THEN [s EXCEPT !.responseQueue = Delete(@, requestId)]
                            ELSE s
                  IN  IF "errors" \in DOMAIN response
                      THEN [s1 EXCEPT !.rejected[request] = @ + 1]
                      ELSE resolve(s1, request, response)

\* onMessage that hands over response.data only.
onMessage_DataOnly(s, message) ==
    IF message.type # "utf8" THEN s
    ELSE LET response == JSONparse(message.utf8Data)
             requestId == RequestIdIn(response)
             request == Lookup(s.responseQueue, requestId)
         IN  IF request = NoRequest THEN s
             ELSE IF request = InheritedProperty THEN [s EXCEPT !.threw = TRUE]
             ELSE LET s1 == IF ~s.requests[request].isSubscription
                            THEN [s EXCEPT !.responseQueue = Delete(@, requestId)]
                            ELSE s
                  IN  resolve(s1, request,
                              [key \in DOMAIN response \cap {"data"} |-> response[key]])

\* onMessage that takes a frame of any type as the answer to the oldest
\* pending request.
onMessage_AnyType(s, message) ==
    IF message.type # "utf8" /\ DOMAIN s.responseQueue = {} THEN s
    ELSE LET response == JSONparse(message.utf8Data)
             requestId == IF message.type # "utf8"
                          THEN KeysInOrder(DOMAIN s.responseQueue)[1]
                          ELSE RequestIdIn(response)
             request == Lookup(s.responseQueue, requestId)
         IN  IF request = NoRequest THEN s
             ELSE IF request = InheritedProperty THEN [s EXCEPT !.threw = TRUE]
             ELSE LET s1 == IF ~s.requests[request].isSubscription
                            THEN [s EXCEPT !.responseQueue = Delete(@, requestId)]
                            ELSE s
                  IN  resolve(s1, request, response)

\* onMessage(message)
onMessage(s, message) ==
    IF message.type # "utf8" THEN s
    ELSE LET response == JSONparse(message.utf8Data)
             requestId == RequestIdIn(response)
             request == Lookup(s.responseQueue, requestId)
         IN  IF request = NoRequest THEN s
             ELSE IF request = InheritedProperty
                  THEN [s EXCEPT !.threw = TRUE]   \* request.resolve is not a function
             ELSE LET s1 == IF ~s.requests[request].isSubscription
                            THEN [s EXCEPT !.responseQueue = Delete(@, requestId)]
                            ELSE s
                  IN  resolve(s1, request, response)

\* The part query() and subscribe() share: queue or send the new request.
Submit(s, isSubscription, lookup) ==
    LET request == Len(s.requests) + 1
        s1 == [s EXCEPT !.requests = Append(@, [isSubscription |-> isSubscription,
                                                lookup |-> lookup])]
    IN  IF s1.connection = NoConnection
        THEN [s1 EXCEPT !.requestQueue = Append(@, request)]
        ELSE sendRequest(s1, request)

\* query that does not check its query string.
query_NoCheck(s, queryStringIsNull) ==
    Submit(s, FALSE, NoLookup)

\* query(queryString, variables, operationName)
query(s, queryStringIsNull) ==
    IF queryStringIsNull THEN [s EXCEPT !.threw = TRUE]
    ELSE Submit(s, FALSE, NoLookup)

\* subscribe(queryString, variables, callback, operationName)
subscribe(s, callbackIsNull) ==
    IF callbackIsNull THEN [s EXCEPT !.threw = TRUE]
    ELSE Submit(s, TRUE, NoLookup)

\* getAccountUuid(usn): answer from the cache, or send a lookup query whose
\* .then() fills the cache.
getAccountUuid(s, usn) ==
    IF s.uuidCache[<<"account", usn>>] # NullUuid THEN s
    ELSE Submit(s, FALSE, <<"account", usn>>)

\* getSubscriptionUuid(usn)
getSubscriptionUuid(s, usn) ==
    IF s.uuidCache[<<"subscription", usn>>] # NullUuid THEN s
    ELSE Submit(s, FALSE, <<"subscription", usn>>)

\* An argument that is null, undefined or "" is falsy; an environment variable
\* is unset, set to "", or set to a non-empty string.
NoArg == ""
Unset == "unset"
FactoryArgs ==
    [hostname : {NoArg, "arg"}, stage : {NoArg, "arg"}, apikey : {NoArg, "arg"},
     INOMIAL_HOSTNAME : {Unset, "", "env"}, INOMIAL_STAGE : {Unset, "", "env"},
     INOMIAL_APIKEY : {Unset, "", "env"}]

\* x || y
OrElse(x, y) == IF x # NoArg THEN x ELSE y

Threw == [status |-> "threw", hostname |-> NoArg, stage |-> NoArg, apikey |-> NoArg]
NotCalled == [status |-> "pending", hostname |-> NoArg, stage |-> NoArg, apikey |-> NoArg]

\* constructor that does not check the stage.
constructor_NoStageCheck(a) ==
    IF a.hostname = NoArg /\ a.INOMIAL_HOSTNAME = Unset THEN Threw
    ELSE [status |-> "client",
          hostname |-> OrElse(a.hostname, a.INOMIAL_HOSTNAME),
          stage |-> OrElse(a.stage, a.INOMIAL_STAGE),
          apikey |-> OrElse(a.apikey, a.INOMIAL_APIKEY)]

\* constructor(hostname, stage, origin, apikey, ...): the two checks, then
\* the defaults taken from the environment.
constructor(a) ==
    IF a.hostname = NoArg /\ a.INOMIAL_HOSTNAME = Unset THEN Threw
    ELSE IF a.stage = NoArg /\ a.INOMIAL_STAGE = Unset THEN Threw
    ELSE [status |-> "client",
          hostname |-> OrElse(a.hostname, a.INOMIAL_HOSTNAME),
          stage |-> OrElse(a.stage, a.INOMIAL_STAGE),
          apikey |-> OrElse(a.apikey, a.INOMIAL_APIKEY)]

\* ---------------------------------------------------------------- actions

\* The exchanges whose completion or callback s invoked, starting from s0.
Invoked(s0, s) == {k \in Requests : s.resolved[k] > s0.resolved[k]}

\* The client's fields after a handler has run from s0 to s.
CommitWith(op, c, requestId, text, s0, s) ==
    /\ requestQueue' = s.requestQueue
    /\ responseQueue' = s.responseQueue
    /\ nextRequestId' = s.nextRequestId
    /\ connection' = s.connection
    /\ reconnectPolicy' = s.reconnectPolicy
    /\ requests' = s.requests
    /\ connecting' = s.connecting
    /\ timers' = s.timers
    /\ wire' = s.wire
    /\ resolved' = s.resolved
    /\ rejected' = s.rejected
    /\ uuidCache' = s.uuidCache
    /\ last' = [op |-> op, conn |-> c, requestId |-> requestId,
                started |-> s.connecting - s0.connecting,
                invoked |-> Invoked(s0, s), threw |-> s.threw,
                text |-> text, delivered |-> s.delivered]
    /\ LET answers == {k \in Invoked(s0, s) :
                           /\ s0.requests[k].lookup # NoLookup
                           /\ "data" \in DOMAIN s.delivered}
           found == {k \in answers : s.delivered["data"].uuid # NullUuid}
       IN  lookedUp' = (lookedUp \ {s0.requests[k].lookup : k \in answers \ found})
                           \cup {s0.requests[k].lookup : k \in found}
    /\ UNCHANGED <<args, outcome>>

Commit(op, c, requestId, s0, s) == CommitWith(op, c, requestId, <<>>, s0, s)

\* connect(hostname, stage, origin, apikey) with every argument given.
DefaultArgs ==
    [hostname |-> "arg", stage |-> "arg", apikey |-> "arg",
     INOMIAL_HOSTNAME |-> Unset, INOMIAL_STAGE |-> Unset, INOMIAL_APIKEY |-> Unset]

\* The state the factory returns: new InomialClient(...); client.connect().
Init ==
    /\ requestQueue = <<>>
    /\ responseQueue = EmptyMap
    /\ nextRequestId = FirstRequestId
    /\ connection = NoConnection
    /\ reconnectPolicy = FALSE
    /\ requests = <<>>
    /\ connecting = 1
    /\ timers = 0
    /\ conns = <<>>
    /\ wire = <<>>
    /\ resolved = [k \in Requests |-> 0]
    /\ rejected = [k \in Requests |-> 0]
    /\ uuidCache = [slot \in Kinds \X Usns |-> NullUuid]
    /\ args = DefaultArgs
    /\ outcome = constructor(DefaultArgs)
    /\ configured = FALSE
    /\ reconnectMark = FirstRequestId
    /\ answered = {}
    /\ lookedUp = {}
    /\ last = [op |-> "connect", conn |-> NoConnection, requestId |-> AbsentId,
               started |-> 1, invoked |-> {}, threw |-> FALSE,
               text |-> <<>>, delivered |-> EmptyMap]

HasIds(n) == nextRequestId + n <= FirstRequestId + MaxSends

\* The caller assigns client.reconnectPolicy.
AssignReconnectPolicy ==
    /\ \E v \in BOOLEAN :
        /\ v # reconnectPolicy
        /\ Commit("assign", NoConnection, AbsentId, this,
                  [this EXCEPT !.reconnectPolicy = v])
    /\ configured' = TRUE
    /\ UNCHANGED <<conns, reconnectMark, answered>>

\* The caller calls query().
Query ==
    /\ Len(requests) < MaxExchanges
    /\ HasIds(1)
    /\ \E queryStringIsNull \in BOOLEAN :
        Commit("query", NoConnection, AbsentId, this, query(this, queryStringIsNull))
    /\ UNCHANGED <<conns, configured, reconnectMark, answered>>

\* The caller calls subscribe().
Subscribe ==
    /\ Len(requests) < MaxExchanges
    /\ HasIds(1)
    /\ \E callbackIsNull \in BOOLEAN :
        Commit("subscribe", NoConnection, AbsentId, this, subscribe(this, callbackIsNull))
    /\ UNCHANGED <<conns, configured, reconnectMark, answered>>

\* The transport reports 'connect' for an attempt: a new connection exists.
Connected ==
    /\ connecting > 0
    /\ Len(conns) < MaxConnections
    /\ HasIds(Len(requestQueue))
    /\ LET c == Len(conns) + 1
           s0 == [this EXCEPT !.connecting = @ - 1]
       IN  /\ conns' = Append(conns, "open")
           /\ Commit("onConnect", c, AbsentId, s0, onConnect(s0, c))
    /\ UNCHANGED <<configured, reconnectMark, answered>>

\* The transport reports 'connectFailed' for an attempt.
ConnectFailed ==
    /\ connecting > 0
    /\ LET s0 == [this EXCEPT !.connecting = @ - 1]
       IN  Commit("onConnectError", NoConnection, AbsentId, s0, onConnectError(s0))
    /\ UNCHANGED <<conns, configured, reconnectMark, answered>>

\* A retry timer fires and calls connect().
Timeout ==
    /\ timers > 0
    /\ LET s0 == [this EXCEPT !.timers = @ - 1]
       IN  Commit("timeout", NoConnection, AbsentId, s0, connect(s0))
    /\ UNCHANGED <<conns, configured, reconnectMark, answered>>

\* The ids a re-queueing doReconnect leaves behind.
MarkAfter(s) == IF s.reconnectPolicy THEN s.nextRequestId ELSE reconnectMark

\* An open connection emits 'error'.
Error ==
    \E c \in 1..Len(conns) :
        /\ conns[c] = "open"
        /\ conns' = [conns EXCEPT ![c] = "errored"]
        /\ Commit("onError", c, AbsentId, this, onError(this))
        /\ reconnectMark' = MarkAfter(this)
        /\ UNCHANGED <<configured, answered>>

\* A connection emits 'close' (after its 'error', or on its own).
Close ==
    \E c \in 1..Len(conns) :
        /\ conns[c] \in {"open", "errored"}
        /\ conns' = [conns EXCEPT ![c] = "closed"]
        /\ Commit("onClose", c, AbsentId, this, onClose(this))
        /\ reconnectMark' = MarkAfter(this)
        /\ UNCHANGED <<configured, answered>>

\* The request ids an inbound response may carry: every id the client has
\* assigned, one it has not assigned yet, none at all, or an inherited key.
InboundIds ==
    {RequestIdOf(n) : n \in FirstRequestId..nextRequestId}
        \cup {AbsentId, InheritedKey}

\* The text of a response: data with a uuid ("ok"), data with a null uuid
\* ("null"), or errors and no data ("errors"); then the extensions, if any.
ResponseText(body, hasExtensions, requestId) ==
    (IF body = "errors" THEN << <<"errors", "E">> >>
     ELSE << <<"data", [uuid |-> IF body = "ok" THEN "U" ELSE NullUuid]>> >>)
    \o (IF hasExtensions THEN << <<"extensions", [requestId |-> requestId]>> >>
        ELSE <<>>)

\* An open connection c emits 'message' with the given frame.
Deliver(c, type, body, hasExtensions, requestId) ==
    LET text == IF type = "utf8"
                THEN ResponseText(body, hasExtensions, requestId) ELSE <<>>
        message == [type |-> type, utf8Data |-> text]
    IN
    /\ conns[c] = "open"
    /\ type = "binary" =>
          (body = "ok" /\ ~hasExtensions /\ requestId = AbsentId)
    /\ ~hasExtensions => requestId = AbsentId
    /\ \E s \in {onMessage(this, message)} :
          /\ \A k \in Invoked(this, s) :
                requests[k].isSubscription => resolved[k] < MaxEvents
          /\ CommitWith("onMessage", c,
                        IF type = "utf8" THEN requestId ELSE AbsentId, text, this, s)
          /\ answered' = answered \cup
                {i \in DOMAIN responseQueue : i \notin DOMAIN s.responseQueue}
    /\ UNCHANGED <<conns, configured, reconnectMark>>

\* An open connection emits 'message': a binary frame, or a text frame with
\* one of the given bodies.
MessageIn(bodies) ==
    \E c \in 1..Len(conns), type \in {"utf8", "binary"}, body \in bodies,
       hasExtensions \in BOOLEAN, requestId \in InboundIds :
        Deliver(c, type, body, hasExtensions, requestId)

Message == MessageIn({"ok", "errors"})

\* The caller calls getAccountUuid().
GetAccountUuid ==
    /\ \E usn \in Usns :
        LET s == getAccountUuid(this, usn) IN
        /\ Len(s.requests) <= MaxExchanges
        /\ s.nextRequestId <= FirstRequestId + MaxSends
        /\ Commit("getAccountUuid", NoConnection, AbsentId, this, s)
    /\ UNCHANGED <<conns, configured, reconnectMark, answered>>

\* The caller calls getSubscriptionUuid().
GetSubscriptionUuid ==
    /\ \E usn \in Usns :
        LET s == getSubscriptionUuid(this, usn) IN
        /\ Len(s.requests) <= MaxExchanges
        /\ s.nextRequestId <= FirstRequestId + MaxSends
        /\ Commit("getSubscriptionUuid", NoConnection, AbsentId, this, s)
    /\ UNCHANGED <<conns, configured, reconnectMark, answered>>

\* Responses to lookups may also carry a null uuid.
LookupMessage == MessageIn({"ok", "null", "errors"})

\* The factory: new InomialClient(...), then client.connect() if it returned.
Factory ==
    /\ outcome.status = "pending"
    /\ outcome' = constructor(args)
    /\ connecting' = IF outcome'.status = "client" THEN connect(this).connecting
                     ELSE connecting
    /\ last' = [last EXCEPT !.op = "factory",
                            !.started = connecting' - connecting,
                            !.threw = (outcome'.status = "threw")]
    /\ UNCHANGED <<requestQueue, responseQueue, nextRequestId, connection,
                   reconnectPolicy, requests, timers, conns, wire, resolved,
                   rejected, uuidCache, args, configured, reconnectMark, answered,
                   lookedUp>>

Next ==
    \/ AssignReconnectPolicy
    \/ Query
    \/ Subscribe
    \/ Connected
    \/ ConnectFailed
    \/ Timeout
    \/ Error
    \/ Close
    \/ Message

Spec == Init /\ [][Next]_vars

\* A client whose caller sets client.reconnectPolicy = true as soon as the
\* factory returns, and never changes it.
EnabledInit ==
    /\ requestQueue = <<>>
    /\ responseQueue = EmptyMap
    /\ nextRequestId = FirstRequestId
    /\ connection = NoConnection
    /\ reconnectPolicy = TRUE
    /\ requests = <<>>
    /\ connecting = 1
    /\ timers = 0
    /\ conns = <<>>
    /\ wire = <<>>
    /\ resolved = [k \in Requests |-> 0]
    /\ rejected = [k \in Requests |-> 0]
    /\ uuidCache = [slot \in Kinds \X Usns |-> NullUuid]
    /\ args = DefaultArgs
    /\ outcome = constructor(DefaultArgs)
    /\ configured = TRUE
    /\ reconnectMark = FirstRequestId
    /\ answered = {}
    /\ lookedUp = {}
    /\ last = [op |-> "assign", conn |-> NoConnection, requestId |-> AbsentId,
               started |-> 0, invoked |-> {}, threw |-> FALSE,
               text |-> <<>>, delivered |-> EmptyMap]

EnabledNext ==
    \/ Query
    \/ Subscribe
    \/ Connected
    \/ ConnectFailed
    \/ Timeout
    \/ Error
    \/ Close
    \/ Message

EnabledSpec == EnabledInit /\ [][EnabledNext]_vars

\* The identifier lookups of a client that reconnects.
LookupNext ==
    \/ GetAccountUuid
    \/ GetSubscriptionUuid
    \/ Connected
    \/ Close
    \/ LookupMessage

LookupSpec == EnabledInit /\ [][LookupNext]_vars

\* The factory call, for every combination of arguments and environment.
FactoryInit ==
    /\ requestQueue = <<>>
    /\ responseQueue = EmptyMap
    /\ nextRequestId = FirstRequestId
    /\ connection = NoConnection
    /\ reconnectPolicy = FALSE
    /\ requests = <<>>
    /\ connecting = 0
    /\ timers = 0
    /\ conns = <<>>
    /\ wire = <<>>
    /\ resolved = [k \in Requests |-> 0]
    /\ rejected = [k \in Requests |-> 0]
    /\ uuidCache = [slot \in Kinds \X Usns |-> NullUuid]
    /\ args \in FactoryArgs
    /\ outcome = NotCalled
    /\ configured = FALSE
    /\ reconnectMark = FirstRequestId
    /\ answered = {}
    /\ lookedUp = {}
    /\ last = [op |-> "none", conn |-> NoConnection, requestId |-> AbsentId,
               started |-> 0, invoked |-> {}, threw |-> FALSE,
               text |-> <<>>, delivered |-> EmptyMap]

FactoryNext == Factory

FactorySpec == FactoryInit /\ [][FactoryNext]_vars

\* The scheduling the runtime and the transport provide: a retry timer that is
\* set fires, and a connection attempt that can succeed does.
FairSpec == Spec /\ WF_vars(Timeout) /\ WF_vars(Connected)

\* The server answers request k: the connection that carried its pending id
\* emits the response to it.
Answer(k) ==
    \E w \in 1..Len(wire) :
        /\ wire[w].request = k
        /\ wire[w].requestId \in DOMAIN responseQueue
        /\ responseQueue[wire[w].requestId] = k
        /\ Deliver(wire[w].conn, "utf8", "ok", TRUE, wire[w].requestId)

\* A reconnecting client whose server answers what it has received.
LiveSpec ==
    EnabledInit /\ [][EnabledNext]_vars /\ \A k \in Requests : WF_vars(Answer(k))

\* ---------------------------------------------------------------- properties

Submitted == 1..Len(requests)

\* Positions of request k in the send queue, and its keys in the pending table.
QueueSlots(k) == {i \in 1..Len(requestQueue) : requestQueue[i] = k}
PendingIds(k) == {i \in DOMAIN responseQueue : responseQueue[i] = k}
InQueue(k) == QueueSlots(k) # {}
Pending(k) == PendingIds(k) # {}
Held(k) == InQueue(k) \/ Pending(k)

\* The transmissions of request k, as positions of the wire log.
Sends(k) == {w \in 1..Len(wire) : wire[w].request = k}
\* The last established connection has reported neither error nor close.
Live == Len(conns) > 0 /\ conns[Len(conns)] = "open"

\* C1: for a client from the factory whose reconnectPolicy was never assigned,
\* every error or close event starts a new connection attempt.
C1_ReconnectAfterLoss ==
    (~configured /\ last.op \in {"onError", "onClose"}) => last.started = 1

\* Request k is in the pending table under an id that was transmitted on
\* connection c, and c has reported error or close.
LostPending(k, c) ==
    /\ c <= Len(conns)
    /\ conns[c] # "open"
    /\ \E w \in Sends(k) : wire[w].conn = c /\ wire[w].requestId \in PendingIds(k)
RetransmittedAfter(k, c) == \E w \in Sends(k) : wire[w].conn > c

\* C2: every exchange that is pending when its connection reports error or
\* close is transmitted again on a connection established later.
C2_RetransmittedAfterLoss ==
    \A k \in Requests, c \in Connections :
        LostPending(k, c) ~> RetransmittedAfter(k, c)

\* C3: every submitted subscription is in exactly one of the send queue and
\* the pending table, exactly once.
C3_SubscriptionDurability ==
    \A k \in Submitted :
        requests[k].isSubscription =>
            Cardinality(QueueSlots(k)) + Cardinality(PendingIds(k)) = 1

\* A subscription that received an event, was re-queued by a reconnect and is
\* pending again under a later id.
C3_Witness ==
    \E k \in Submitted :
        /\ requests[k].isSubscription
        /\ resolved[k] > 0
        /\ Cardinality(Sends(k)) >= 2
        /\ Pending(k)

\* C4: the completion of a OneShot exchange is invoked at most once, and only
\* by the dispatch of a message that carries the id the exchange is pending under.
C4_ResolveOnlyOnMatchingResponse ==
    [][\A k \in Submitted :
          (~requests[k].isSubscription /\ resolved'[k] # resolved[k]) =>
              /\ resolved[k] = 0
              /\ resolved'[k] = 1
              /\ last'.op = "onMessage"
              /\ last'.requestId \in PendingIds(k)]_vars

\* A OneShot exchange resolved after it was retransmitted.
C4_Witness ==
    \E k \in Submitted :
        /\ ~requests[k].isSubscription
        /\ resolved[k] = 1
        /\ Cardinality(Sends(k)) >= 2
        /\ last.op = "onMessage"
        /\ last.invoked = {k}

\* C5: an unanswered OneShot exchange is in the send queue or the pending
\* table, and only the dispatch of a response to a OneShot exchange takes an
\* exchange out of both.
C5_NoExchangeLost ==
    /\ [](\A k \in Submitted :
            (~requests[k].isSubscription /\ resolved[k] = 0) => Held(k))
    /\ [][\A k \in Submitted :
            (Held(k) /\ ~Held(k)') =>
                /\ last'.op = "onMessage"
                /\ ~requests[k].isSubscription
                /\ k \in last'.invoked]_vars

\* An unanswered OneShot exchange that a reconnect has put back on the queue.
C5_Witness ==
    \E k \in Submitted :
        /\ ~requests[k].isSubscription
        /\ resolved[k] = 0
        /\ Sends(k) # {}
        /\ InQueue(k)
        /\ last.op \in {"onError", "onClose"}

\* C6: no exchange is in the send queue and in the pending table at once.
C6_QueueAndPendingDisjoint ==
    \A k \in Submitted : ~(InQueue(k) /\ Pending(k))

\* Two exchanges that were pending, both back on the queue after a reconnect.
C6_Witness ==
    /\ Len(requests) >= 2
    /\ \A k \in Submitted : InQueue(k) /\ Sends(k) # {} /\ ~Pending(k)

\* C7: the first onConnect transmits the N exchanges submitted before it, one
\* transmission each, in submission order, under distinct ids, and leaves the
\* queue empty and the N exchanges pending.
C7_QueueWhileDisconnected ==
    (last.op = "onConnect" /\ Len(conns) = 1) =>
        /\ Len(wire) = Len(requests)
        /\ \A w \in 1..Len(wire) :
              /\ wire[w].request = w
              /\ wire[w].conn = 1
              /\ wire[w].requestId \in PendingIds(w)
        /\ \A v, w \in 1..Len(wire) :
              v # w => wire[v].requestId # wire[w].requestId
        /\ requestQueue = <<>>
        /\ Cardinality(DOMAIN responseQueue) = Len(requests)

\* Two exchanges were queued when the first connection was established.
C7_Witness ==
    /\ last.op = "onConnect"
    /\ Len(conns) = 1
    /\ Len(requests) >= 2
    /\ Len(wire) >= 2

\* C8: query() and subscribe() queue the exchange, without id or transmission,
\* when no live connection exists, and send it at once when one does.
C8_QueueIffNoLiveConnection ==
    [][Len(requests') = Len(requests) + 1 =>
        LET k == Len(requests') IN
        IF ~Live
        THEN /\ requestQueue' = Append(requestQueue, k)
             /\ nextRequestId' = nextRequestId
             /\ responseQueue' = responseQueue
             /\ wire' = wire
        ELSE /\ requestQueue' = requestQueue
             /\ nextRequestId' = nextRequestId + 1
             /\ responseQueue' = (RequestIdOf(nextRequestId) :> k) @@ responseQueue
             /\ wire' = Append(wire, [requestId |-> RequestIdOf(nextRequestId),
                                      request |-> k, conn |-> Len(conns)])]_vars

\* An id assigned before the last re-queueing doReconnect.
PreReconnect(requestId) ==
    /\ requestId[1] = "R"
    /\ requestId[2] < reconnectMark

\* C9: no two transmissions of an exchange carry the same id, no pending entry
\* keeps an id from before the last reconnect, and a message that carries such
\* an id invokes nothing and leaves the pending table and the queue alone.
C9_IdFreshness ==
    /\ [](/\ \A v, w \in 1..Len(wire) :
               (v # w /\ wire[v].request = wire[w].request) =>
                   wire[v].requestId # wire[w].requestId
          /\ \A i \in DOMAIN responseQueue : ~PreReconnect(i))
    /\ [][(last'.op = "onMessage" /\ PreReconnect(last'.requestId)) =>
            /\ last'.invoked = {}
            /\ resolved' = resolved
            /\ responseQueue' = responseQueue
            /\ requestQueue' = requestQueue]_vars

\* A late message with the old id of an exchange that is pending again under
\* a new one.
C9_Witness ==
    /\ last.op = "onMessage"
    /\ PreReconnect(last.requestId)
    /\ \E k \in Submitted :
          /\ Pending(k)
          /\ \E w \in Sends(k) : wire[w].requestId = last.requestId
          /\ \E w \in Sends(k) : wire[w].requestId \in PendingIds(k)

\* C10: the dispatch of a response to a pending OneShot exchange removes its
\* entry, and a later message with the same id finds none and invokes nothing.
C10_AtMostOneRemoval ==
    /\ [](answered \cap DOMAIN responseQueue = {})
    /\ [][/\ (last'.op = "onMessage" /\ last'.requestId \in answered) =>
                /\ last'.invoked = {}
                /\ resolved' = resolved
          /\ \A i \in DOMAIN responseQueue :
                (last'.op = "onMessage" /\ last'.requestId = i
                    /\ ~requests[responseQueue[i]].isSubscription) =>
                        /\ last'.invoked = {responseQueue[i]}
                        /\ i \notin DOMAIN responseQueue'
                        /\ i \in answered']_vars

\* A second message with the id of an answered OneShot exchange.
C10_Witness ==
    /\ last.op = "onMessage"
    /\ last.requestId \in answered
    /\ last.invoked = {}
    /\ \E k \in Submitted : ~requests[k].isSubscription /\ resolved[k] = 1

\* C11: the response to the later-sent of two pending OneShot exchanges
\* resolves that one alone and leaves the earlier one pending under its id;
\* the response to the earlier one resolves the earlier one.
C11_ResponsesInAnyOrder ==
    [][\A i, j \in DOMAIN responseQueue :
          (/\ i[2] < j[2]
           /\ ~requests[responseQueue[i]].isSubscription
           /\ ~requests[responseQueue[j]].isSubscription
           /\ last'.op = "onMessage") =>
              /\ last'.requestId = j =>
                    /\ last'.invoked = {responseQueue[j]}
                    /\ i \in DOMAIN responseQueue'
                    /\ responseQueue'[i] = responseQueue[i]
                    /\ resolved'[responseQueue[i]] = resolved[responseQueue[i]]
              /\ last'.requestId = i =>
                    /\ last'.invoked = {responseQueue[i]}
                    /\ resolved'[responseQueue[i]] = 1]_vars

\* The earlier-sent exchange is resolved after the later-sent one was.
C11_Witness ==
    /\ last.op = "onMessage"
    /\ \E k, j \in Submitted :
          /\ k # j
          /\ last.invoked = {k}
          /\ resolved[k] = 1
          /\ resolved[j] = 1
          /\ \E w \in Sends(k), v \in Sends(j) :
                /\ w < v
                /\ wire[w].conn = wire[v].conn
                /\ wire[w].requestId = last.requestId
                /\ wire[v].requestId \in answered

\* C12: each message that carries the id of a pending subscription invokes its
\* callback once and leaves the pending table as it was.
C12_SubscriptionStaysPending ==
    [][\A i \in DOMAIN responseQueue :
          (/\ requests[responseQueue[i]].isSubscription
           /\ last'.op = "onMessage"
           /\ last'.requestId = i) =>
              /\ last'.invoked = {responseQueue[i]}
              /\ resolved'[responseQueue[i]] = resolved[responseQueue[i]] + 1
              /\ responseQueue' = responseQueue]_vars

\* A subscription that has received two events under the same id.
C12_Witness ==
    \E k \in Submitted :
        /\ requests[k].isSubscription
        /\ resolved[k] = 2
        /\ Cardinality(Sends(k)) = 1
        /\ last.op = "onMessage"
        /\ last.invoked = {k}
        /\ last.requestId \in PendingIds(k)

\* The connections that are open.
Open == {c \in 1..Len(conns) : conns[c] = "open"}

\* C13: at most one transport connection is open or being established.
C13_SingleConnection ==
    Cardinality(Open) + connecting <= 1

\* C14: with the policy enabled, a client without a live connection has a
\* connection attempt in progress or a retry timer set.
C14_NeverStopsTrying ==
    (Open = {} \/ connection = NoConnection) => connecting + timers >= 1

\* A connection was lost and the attempt that followed failed.
C14_Witness ==
    /\ Len(conns) >= 1
    /\ Open = {}
    /\ connection = NoConnection
    /\ timers >= 1

\* The text has a member with this key.
HasMember(text, key) == \E m \in 1..Len(text) : text[m][1] = key

\* C15: a response with errors is dispatched like any other, and reject is
\* never called.
C15_ErrorsAreResolved ==
    /\ [](\A k \in Requests : rejected[k] = 0)
    /\ [][(/\ last'.op = "onMessage"
           /\ HasMember(last'.text, "errors")
           /\ last'.requestId \in DOMAIN responseQueue) =>
              /\ last'.invoked = {responseQueue[last'.requestId]}
              /\ resolved'[responseQueue[last'.requestId]]
                     = resolved[responseQueue[last'.requestId]] + 1
              /\ "errors" \in DOMAIN last'.delivered]_vars

\* A OneShot exchange resolved with a response that carries errors.
C15_Witness ==
    /\ last.op = "onMessage"
    /\ HasMember(last.text, "errors")
    /\ \E k \in Submitted :
          /\ ~requests[k].isSubscription
          /\ last.invoked = {k}
          /\ resolved[k] = 1

\* The lookup exchanges created for a cache slot.
Lookups(slot) == {k \in Submitted : requests[k].lookup = slot}
\* The cache slot a call reads.
SlotOf(op) == <<IF op = "getAccountUuid" THEN "account" ELSE "subscription", "usn">>
IsLookupCall(op) == op \in {"getAccountUuid", "getSubscriptionUuid"}

\* C16 as stated: the calls for one identifier create one lookup exchange in
\* all, whether or not the first has resolved when the second is made.
C16_OneLookupPerIdentifier ==
    \A slot \in Kinds \X Usns : Cardinality(Lookups(slot)) <= 1

\* C16, amended: a call made when the latest lookup response with data for the
\* same identifier carried a uuid creates no exchange and sends nothing.
C16_CachedLookupSendsNothing ==
    [][(IsLookupCall(last'.op) /\ SlotOf(last'.op) \in lookedUp) =>
          /\ requests' = requests
          /\ wire' = wire
          /\ requestQueue' = requestQueue
          /\ responseQueue' = responseQueue
          /\ nextRequestId' = nextRequestId]_vars

\* A second call for an identifier whose only lookup has resolved with a uuid:
\* still one lookup exchange, transmitted once.
C16_Witness ==
    /\ last.op = "getAccountUuid"
    /\ <<"account", "usn">> \in lookedUp
    /\ Cardinality(Lookups(<<"account", "usn">>)) = 1
    /\ \E k \in Lookups(<<"account", "usn">>) :
          resolved[k] = 1 /\ Cardinality(Sends(k)) = 1

\* C17: what resolve or the callback receives has exactly the members of the
\* inbound text, each with the value the text gives it.
C17_WholeMessageDelivered ==
    (last.op = "onMessage" /\ last.invoked # {}) =>
        /\ DOMAIN last.delivered = {last.text[m][1] : m \in 1..Len(last.text)}
        /\ \A m \in 1..Len(last.text) :
              last.delivered[last.text[m][1]] = last.text[m][2]

\* A response with errors and extensions was delivered.
C17_Witness ==
    /\ last.op = "onMessage"
    /\ last.invoked # {}
    /\ HasMember(last.text, "errors")
    /\ HasMember(last.text, "extensions")

\* C18: a text message whose requestId is absent or is no key of the pending
\* table invokes nothing, throws nothing and changes nothing.
C18_UnroutableDropped ==
    [][(/\ last'.op = "onMessage"
        /\ Len(last'.text) > 0
        /\ last'.requestId \notin DOMAIN responseQueue) =>
           /\ last'.invoked = {}
           /\ ~last'.threw
           /\ responseQueue' = responseQueue
           /\ requestQueue' = requestQueue
           /\ nextRequestId' = nextRequestId
           /\ connection' = connection]_vars

\* The hostname, or the stage, is given neither as argument nor in the
\* environment.
Missing(a) ==
    \/ a.hostname = NoArg /\ a.INOMIAL_HOSTNAME = Unset
    \/ a.stage = NoArg /\ a.INOMIAL_STAGE = Unset

\* C19: the factory throws, creating no client and starting no attempt, when
\* hostname or stage is missing; otherwise it returns a client, with or
\* without an API key.
C19_MissingEndpointThrows ==
    outcome.status # "pending" =>
        IF Missing(args)
        THEN outcome.status = "threw" /\ connecting = 0 /\ last.started = 0
        ELSE outcome.status = "client" /\ connecting = 1

\* The stage alone is missing and the factory threw.
C19_Witness ==
    /\ outcome.status = "threw"
    /\ args.hostname = "arg"
    /\ args.stage = NoArg
    /\ args.INOMIAL_STAGE = Unset

\* C20: the k-th transmission carries the id FirstRequestId + k - 1, and the
\* counter never decreases.
C20_IdsStrictlyIncrease ==
    /\ [](/\ nextRequestId = FirstRequestId + Len(wire)
          /\ \A w \in 1..Len(wire) :
                wire[w].requestId = RequestIdOf(FirstRequestId + w - 1))
    /\ [][nextRequestId' >= nextRequestId]_vars

\* An exchange retransmitted after a reconnect, under a later id.
C20_Witness ==
    /\ reconnectMark > FirstRequestId
    /\ Len(wire) >= 3
    /\ \E k \in Submitted : Cardinality(Sends(k)) >= 2

\* The position in the wire log of the latest transmission of request k.
LastSend(k) == CHOOSE w \in Sends(k) : \A v \in Sends(k) : v <= w
\* The handler that ran was a doReconnect that passed its policy check.
Requeued == last'.op \in {"onError", "onClose"} /\ reconnectPolicy

\* C21: onConnect transmits the send queue from first to last; a re-queueing
\* doReconnect appends the pending exchanges in the order of their previous
\* transmission; an exchange submitted while disconnected goes to the end of
\* the queue; so the queue is always in submission order.
C21_TransmittedInQueueOrder ==
    /\ [](\A p, q \in 1..Len(requestQueue) :
            p < q => requestQueue[p] < requestQueue[q])
    /\ [][/\ last'.op = "onConnect" =>
                /\ Len(wire') = Len(wire) + Len(requestQueue)
                /\ \A i \in 1..Len(requestQueue) :
                      /\ wire'[Len(wire) + i].request = requestQueue[i]
                      /\ wire'[Len(wire) + i].conn = last'.conn
          /\ Requeued =>
                /\ Len(requestQueue') = Len(requestQueue)
                                            + Cardinality(DOMAIN responseQueue)
                /\ SubSeq(requestQueue', 1, Len(requestQueue)) = requestQueue
                /\ \A p, q \in Len(requestQueue) + 1 .. Len(requestQueue') :
                      p < q => LastSend(requestQueue'[p]) < LastSend(requestQueue'[q])
          /\ (Len(requests') = Len(requests) + 1 /\ requestQueue' # requestQueue) =>
                requestQueue' = Append(requestQueue, Len(requests'))]_vars

\* The second connection was just established and sent a re-queued exchange
\* first and an exchange submitted while disconnected after it.
C21_Witness ==
    /\ last.op = "onConnect"
    /\ last.conn = 2
    /\ \E k, j \in Submitted :
          /\ Cardinality(Sends(k)) = 2
          /\ Cardinality(Sends(j)) = 1
          /\ LastSend(k) + 1 = LastSend(j)
          /\ wire[LastSend(j)].conn = 2

\* C22: a doReconnect that passes its policy check sets the handle to null,
\* appends every pending request object to the queue, once each and after
\* what the queue held, empties the pending table, leaves the counter and the
\* request objects alone, and starts one connection attempt.
C22_ReconnectRequeuesAll ==
    [][Requeued =>
          /\ connection' = NoConnection
          /\ Len(requestQueue') = Len(requestQueue)
                                      + Cardinality(DOMAIN responseQueue)
          /\ SubSeq(requestQueue', 1, Len(requestQueue)) = requestQueue
          /\ \A i \in DOMAIN responseQueue :
                Cardinality({p \in Len(requestQueue) + 1 .. Len(requestQueue') :
                                requestQueue'[p] = responseQueue[i]}) = 1
          /\ requests' = requests
          /\ resolved' = resolved
          /\ responseQueue' = EmptyMap
          /\ nextRequestId' = nextRequestId
          /\ last'.started = 1
          /\ connecting' = connecting + 1
          /\ timers' = timers
          /\ wire' = wire]_vars

\* An error with two exchanges pending: both are on the queue, the table is
\* empty, the handle is null and one attempt was started.
C22_Witness ==
    /\ last.op = "onError"
    /\ last.started = 1
    /\ reconnectPolicy
    /\ connection = NoConnection
    /\ DOMAIN responseQueue = {}
    /\ Len(requestQueue) = 2
    /\ \A p \in 1..Len(requestQueue) : Sends(requestQueue[p]) # {}

\* C23: with the policy disabled an error or close changes no field of the
\* client and starts or schedules no attempt; a client whose policy was never
\* enabled has no attempt and no timer once its connection has failed.
C23_DisabledChangesNothing ==
    /\ [][(last'.op \in {"onError", "onClose"} /\ ~reconnectPolicy) =>
            /\ connection' = connection
            /\ requestQueue' = requestQueue
            /\ responseQueue' = responseQueue
            /\ nextRequestId' = nextRequestId
            /\ last'.started = 0
            /\ connecting' = connecting
            /\ timers' = timers
            /\ wire' = wire]_vars
    /\ []((~configured /\ \E c \in 1..Len(conns) : conns[c] # "open") =>
            connecting = 0 /\ timers = 0)

\* The connection of a client with the default policy closed while an
\* exchange was pending.
C23_Witness ==
    /\ ~configured
    /\ last.op = "onClose"
    /\ conns[last.conn] = "closed"
    /\ connection = last.conn
    /\ DOMAIN responseQueue # {}

\* C24: every connectFailed sets one retry timer, whose firing starts one
\* attempt, and leaves the handle null and the queue, the pending table and
\* the counter as they were.
C24_ConnectFailedRetries ==
    [][/\ last'.op = "onConnectError" =>
             /\ timers' = timers + 1
             /\ connecting' = connecting - 1
             /\ connection' = NoConnection
             /\ requestQueue' = requestQueue
             /\ responseQueue' = responseQueue
             /\ nextRequestId' = nextRequestId
       /\ last'.op = "timeout" =>
             /\ timers' = timers - 1
             /\ connecting' = connecting + 1]_vars

\* C25: a frame that is not text invokes nothing, throws nothing and changes
\* no field of the client.
C25_NonTextIgnored ==
    [][(last'.op = "onMessage" /\ Len(last'.text) = 0) =>
          /\ last'.invoked = {}
          /\ ~last'.threw
          /\ resolved' = resolved
          /\ responseQueue' = responseQueue
          /\ requestQueue' = requestQueue
          /\ nextRequestId' = nextRequestId
          /\ connection' = connection]_vars

\* A binary frame arrived while an exchange was pending.
C25_Witness ==
    /\ last.op = "onMessage"
    /\ Len(last.text) = 0
    /\ DOMAIN responseQueue # {}
    /\ connection # NoConnection

\* C26: no exchange is pending under two ids, and an unanswered OneShot
\* exchange that was transmitted on the connection the handle refers to is
\* pending under the id of its latest transmission.
C26_PendingUnderLatestId ==
    /\ \A k \in Submitted : Cardinality(PendingIds(k)) <= 1
    /\ \A k \in Submitted :
          (/\ ~requests[k].isSubscription
           /\ resolved[k] = 0
           /\ connection # NoConnection
           /\ \E w \in Sends(k) : wire[w].conn = connection) =>
              PendingIds(k) = {wire[LastSend(k)].requestId}

\* An unanswered OneShot exchange, retransmitted on the current connection,
\* while another exchange has been answered.
C26_Witness ==
    \E k, j \in Submitted :
        /\ ~requests[k].isSubscription
        /\ resolved[k] = 0
        /\ resolved[j] = 1
        /\ Cardinality(Sends(k)) >= 2
        /\ connection # NoConnection
        /\ wire[LastSend(k)].conn = connection
        /\ PendingIds(k) = {wire[LastSend(k)].requestId}

\* C27: no exchange is in the send queue twice, and no exchange is
\* transmitted twice on one connection.
C27_QueuedAtMostOnce ==
    /\ \A k \in Submitted : Cardinality(QueueSlots(k)) <= 1
    /\ \A k \in Submitted, c \in 1..Len(conns) :
          Cardinality({w \in Sends(k) : wire[w].conn = c}) <= 1

\* The only connection reported error and then close, each running
\* doReconnect, and the exchange it had transmitted is on the queue once.
C27_Witness ==
    /\ last.op = "onClose"
    /\ last.started = 1
    /\ Len(conns) = 1
    /\ connecting = 2
    /\ \E k \in Submitted : Sends(k) # {} /\ Cardinality(QueueSlots(k)) = 1

\* C28: each transmission carries the id under which sendRequest has just
\* filed the request, the request is pending under that id alone, and no
\* earlier transmission of the request carried it.
C28_PayloadIdIsPendingKey ==
    [][\A w \in Len(wire) + 1 .. Len(wire') :
          /\ {i \in DOMAIN responseQueue' : responseQueue'[i] = wire'[w].request}
                 = {wire'[w].requestId}
          /\ wire'[w].requestId \notin DOMAIN responseQueue
          /\ \A v \in 1..Len(wire) : wire[v].requestId # wire'[w].requestId]_vars

\* A connection was just established and retransmitted an exchange, which is
\* pending under the new id and no longer under the old one.
C28_Witness ==
    /\ last.op = "onConnect"
    /\ \E k \in Submitted :
          /\ Cardinality(Sends(k)) >= 2
          /\ wire[LastSend(k)].conn = last.conn
          /\ PendingIds(k) = {wire[LastSend(k)].requestId}
          /\ \A w \in Sends(k) \ {LastSend(k)} :
                wire[w].requestId \notin DOMAIN responseQueue

\* The handle refers to an open connection established after connection c.
Replaced(c) ==
    /\ connection # NoConnection
    /\ c < connection
    /\ conns[connection] = "open"

\* C30: an error or close of a connection that a newer open connection has
\* replaced leaves the handle, the pending table and the queue alone and
\* starts no attempt, and no exchange is transmitted again while the
\* connection of its previous transmission is open.
C30_StaleEventsIgnored ==
    /\ [][(last'.op \in {"onError", "onClose"} /\ Replaced(last'.conn)) =>
            /\ connection' = connection
            /\ responseQueue' = responseQueue
            /\ requestQueue' = requestQueue
            /\ last'.started = 0]_vars
    /\ [][\A w \in Len(wire) + 1 .. Len(wire') :
            \A v \in 1..Len(wire) :
                wire[v].request = wire'[w].request =>
                    conns[wire[v].conn] # "open"]_vars

\* The handle refers to an open connection.
Up == connection # NoConnection /\ conns[connection] = "open"

\* C29: if from some point on the client has an open connection, every
\* submitted OneShot exchange is resolved.
C29_EventuallyResolved ==
    (<>[]Up) =>
        \A k \in Requests :
            (k \in Submitted /\ ~requests[k].isSubscription) ~> (resolved[k] = 1)

\* Two OneShot exchanges are resolved: one was in flight when its connection
\* was lost, the other was submitted while disconnected.
C29_Witness ==
    /\ Up
    /\ last.op = "onMessage"
    /\ \E k, j \in Submitted :
          /\ ~requests[k].isSubscription /\ ~requests[j].isSubscription
          /\ resolved[k] = 1 /\ resolved[j] = 1
          /\ Cardinality(Sends(k)) = 2
          /\ Cardinality(Sends(j)) = 1
          /\ wire[LastSend(j)].conn = 2
          /\ LastSend(k) < LastSend(j)

\* C31: while the handle is not null the send queue is empty.
C31_ConnectedQueueEmpty ==
    connection # NoConnection => requestQueue = <<>>

\* After a reconnect, an exchange submitted on the second connection went
\* straight to the wire and the queue is still empty.
C31_Witness ==
    /\ last.op \in {"query", "subscribe"}
    /\ ~last.threw
    /\ connection = 2
    /\ requestQueue = <<>>
    /\ wire[Len(wire)].request = Len(requests)
    /\ \E k \in Submitted : Cardinality(Sends(k)) = 2

\* C32: while the handle is null the pending table is empty.
C32_DisconnectedNothingPending ==
    connection = NoConnection => DOMAIN responseQueue = {}

\* A close took a subscription that had received an event out of the pending
\* table: the handle is null, the table empty, the subscription queued.
C32_Witness ==
    /\ last.op = "onClose"
    /\ connection = NoConnection
    /\ DOMAIN responseQueue = {}
    /\ \E k \in Submitted :
          /\ requests[k].isSubscription
          /\ resolved[k] > 0
          /\ InQueue(k)

\* The call threw and touched nothing of the client s0.
Refused(s0, s) ==
    /\ s.threw
    /\ s.requestQueue = s0.requestQueue
    /\ s.responseQueue = s0.responseQueue
    /\ s.nextRequestId = s0.nextRequestId
    /\ s.wire = s0.wire
    /\ s.requests = s0.requests
    /\ s.connection = s0.connection

\* C33: in every state query() with a null query string and subscribe() with
\* a null callback throw and touch nothing, and a call that threw left the
\* queue, the pending table, the counter and the wire as they were.
C33_RejectedSubmissionNoEffect ==
    /\ [](/\ Refused(this, query(this, TRUE))
          /\ Refused(this, subscribe(this, TRUE)))
    /\ [][(last'.op \in {"query", "subscribe"} /\ last'.threw) =>
            /\ requestQueue' = requestQueue
            /\ responseQueue' = responseQueue
            /\ nextRequestId' = nextRequestId
            /\ wire' = wire
            /\ requests' = requests
            /\ connection' = connection]_vars

\* subscribe() was refused while the client was connected and an exchange
\* was pending.
C33_Witness ==
    /\ last.op = "subscribe"
    /\ last.threw
    /\ connection # NoConnection
    /\ conns[connection] = "open"
    /\ DOMAIN responseQueue # {}
====
